---- MODULE Spec2Model ----
(***************************************************************************)
(* Equality of the tensor statistics of                                    *)
(* nncf/common/tensor_statistics/statistics.py.                            *)
(*                                                                         *)
(* Numbers are fixed point: one unit is 1e-7, so 1.0 is 10^7 units.  A     *)
(* relative tolerance is kept as its reciprocal (1e-6 is 10^6), so that    *)
(* "d <= rtol * m" is the exact integer test "d <= m \div (1/rtol)".       *)
(* A tensor is a sequence of numbers; a dict is a sequence of <<key,       *)
(* value>> pairs with distinct keys, in insertion order.                   *)
(***************************************************************************)
EXTENDS Integers, Sequences, FiniteSets

VARIABLES self, other, result, calls, reads, lookups

vars == <<self, other, result, calls, reads, lookups>>

\* ------------------------------------------------------------ bounds
MaxLen == 3
MaxKeys == 2

\* ------------------------------------------------------------ numbers
Scale == 10^7
One == Scale
Two == 2 * Scale
Nine == 9 * Scale
OnePlus5em7 == One + 5
OnePlus1em5 == One + 100
NaN == -1

\* rtol of tensor_eq (1e-6) and of PercentileTensorStatistic.__eq__ (1e-9),
\* as reciprocals
DEFAULT_RTOL_INV == 1000000
PERCENTILE_RTOL_INV == 1000000000

Abs(a) == IF a < 0 THEN 0 - a ELSE a
Max(a, b) == IF a < b THEN b ELSE a

\* two elements are equal within the relative tolerance 1/rinv; NaN is equal
\* to nothing
Close(a, b, rinv) ==
    IF a = NaN \/ b = NaN THEN FALSE
    ELSE Abs(a - b) <= (Max(Abs(a), Abs(b)) \div rinv)

\* TensorStatistic.tensor_eq: a shape mismatch is inequality
tensor_eq(tensor1, tensor2, rinv) ==
    /\ Len(tensor1) = Len(tensor2)
    /\ \A i \in 1..Len(tensor1) : Close(tensor1[i], tensor2[i], rinv)

\* one invocation of tensor_eq, as it is logged
Call(tensor1, tensor2, rinv) ==
    [t1 |-> tensor1, t2 |-> tensor2, rtol |-> rinv,
     ret |-> tensor_eq(tensor1, tensor2, rinv)]

\* ------------------------------------------------------------ dicts
Keys(d) == {d[i][1] : i \in DOMAIN d}
Get(d, k) == d[CHOOSE i \in DOMAIN d : d[i][1] = k][2]
\* collections.Counter over the keys of a dict
Counter(d) == [k \in Keys(d) |-> Cardinality({i \in DOMAIN d : d[i][1] = k})]

\* ------------------------------------------------------------ inputs
Elems == {One, OnePlus5em7, OnePlus1em5, NaN}
Tensors == {[i \in 1..n |-> IF i = 1 THEN a ELSE Two] : a \in Elems, n \in 1..MaxLen}
Shapes == {[i \in 1..n |-> IF i = 1 THEN a ELSE Two] : a \in {One, Two}, n \in 1..MaxLen}
Pcts == {5, 990, 999}
PctValues == {<<One>>, <<OnePlus5em7>>, <<Nine>>, <<One, Two>>}
Dicts ==
    {d \in UNION {[1..n -> Pcts \X PctValues] : n \in 0..MaxKeys} :
        \A i, j \in DOMAIN d : d[i][1] = d[j][1] => i = j}

MinMaxTensorStatistic ==
    [kind : {"MinMax"}, min_values : Tensors, max_values : Tensors]
MeanTensorStatistic ==
    [kind : {"Mean"}, mean_values : Tensors, shape : Shapes]
MedianMADTensorStatistic ==
    [kind : {"MedianMAD"}, median_values : Tensors, mad_values : Tensors]
PercentileTensorStatistic ==
    [kind : {"Percentile"}, percentile_vs_values_dict : Dicts]
RawTensorStatistic ==
    [kind : {"Raw"}, values : Tensors]

Statistics ==
    MinMaxTensorStatistic \cup MeanTensorStatistic \cup MedianMADTensorStatistic
        \cup PercentileTensorStatistic \cup RawTensorStatistic

\* operands of another type: one instance of each variant and two values
\* that are no statistic at all
Foreign ==
    { [kind |-> "MinMax", min_values |-> <<One>>, max_values |-> <<Two>>],
      [kind |-> "Mean", mean_values |-> <<One>>, shape |-> <<One>>],
      [kind |-> "MedianMAD", median_values |-> <<One>>, mad_values |-> <<One>>],
      [kind |-> "Percentile", percentile_vs_values_dict |-> <<>>],
      [kind |-> "Raw", values |-> <<One>>],
      [kind |-> "None"],
      [kind |-> "float"] }

Others(s) == {o \in Statistics : o.kind = s.kind} \cup Foreign

\* ------------------------------------------------------------ __eq__
\* The outcome of one comparison: what it returns, the invocations of
\* tensor_eq, the fields read and the dict values looked up, in order.
Outcome(r, c, f, l) == [ret |-> r, calls |-> c, reads |-> f, lookups |-> l]

Bool(b) == IF b THEN "True" ELSE "False"

\* tensor_eq(self.f1, other.f1) and tensor_eq(self.f2, other.f2)
And2(s, o, f1, f2) ==
    LET c1 == Call(s[f1], o[f1], DEFAULT_RTOL_INV)
        c2 == Call(s[f2], o[f2], DEFAULT_RTOL_INV)
        r1 == <<<<"self", f1>>, <<"other", f1>>>>
        r2 == <<<<"self", f2>>, <<"other", f2>>>>
    IN  IF ~c1.ret
        THEN Outcome("False", <<c1>>, r1, <<>>)
        ELSE Outcome(Bool(c2.ret), <<c1, c2>>, r1 \o r2, <<>>)

NotImplemented == Outcome("NotImplemented", <<>>, <<>>, <<>>)

\* mutant: "or" where the code says "and"
MinMax__eq__Or(s, o) ==
    IF o.kind # "MinMax" THEN NotImplemented
    ELSE LET c1 == Call(s.min_values, o.min_values, DEFAULT_RTOL_INV)
             c2 == Call(s.max_values, o.max_values, DEFAULT_RTOL_INV)
         IN  Outcome(Bool(c1.ret \/ c2.ret), <<c1, c2>>, <<>>, <<>>)

\* mutant: min_values is left out of the comparison
MinMax__eq__MaxOnly(s, o) ==
    IF o.kind # "MinMax" THEN NotImplemented
    ELSE LET c2 == Call(s.max_values, o.max_values, DEFAULT_RTOL_INV)
         IN  Outcome(Bool(c2.ret), <<c2>>,
                     <<<<"self", "max_values">>, <<"other", "max_values">>>>, <<>>)

MinMax__eq__(s, o) ==
    IF o.kind # "MinMax" THEN NotImplemented
    ELSE And2(s, o, "min_values", "max_values")

\* mutant: shape is left out of the comparison
Mean__eq__NoShape(s, o) ==
    IF o.kind # "Mean" THEN NotImplemented
    ELSE LET c1 == Call(s.mean_values, o.mean_values, DEFAULT_RTOL_INV)
         IN  Outcome(Bool(c1.ret), <<c1>>,
                     <<<<"self", "mean_values">>, <<"other", "mean_values">>>>, <<>>)

\* mutant: mean_values is compared with the shape of the other operand
Mean__eq__CrossField(s, o) ==
    IF o.kind # "Mean" THEN NotImplemented
    ELSE LET c1 == Call(s.mean_values, o.shape, DEFAULT_RTOL_INV)
             c2 == Call(s.shape, o.shape, DEFAULT_RTOL_INV)
         IN  IF ~c1.ret
             THEN Outcome("False", <<c1>>, <<>>, <<>>)
             ELSE Outcome(Bool(c2.ret), <<c1, c2>>, <<>>, <<>>)

Mean__eq__(s, o) ==
    IF o.kind # "Mean" THEN NotImplemented
    ELSE And2(s, o, "mean_values", "shape")

MedianMAD__eq__(s, o) ==
    IF o.kind # "MedianMAD" THEN NotImplemented
    ELSE And2(s, o, "median_values", "mad_values")

\* mutant: another type is answered with False
Raw__eq__ReturnsFalse(s, o) ==
    IF o.kind # "Raw" THEN Outcome("False", <<>>, <<>>, <<>>)
    ELSE LET c == Call(s.values, o.values, DEFAULT_RTOL_INV)
         IN  Outcome(Bool(c.ret), <<c>>,
                     <<<<"self", "values">>, <<"other", "values">>>>, <<>>)

Raw__eq__(s, o) ==
    IF o.kind # "Raw" THEN NotImplemented
    ELSE LET c == Call(s.values, o.values, DEFAULT_RTOL_INV)
         IN  Outcome(Bool(c.ret), <<c>>,
                     <<<<"self", "values">>, <<"other", "values">>>>, <<>>)

\* mutant: "return True" inside the loop, after its first item
PercentileLoopFirstOnly(sd, od, i, c, l) ==
    LET f == <<<<"self", "percentile_vs_values_dict">>,
               <<"other", "percentile_vs_values_dict">>>>
    IN  IF i > Len(sd) THEN Outcome("True", c, f, l)
        ELSE LET pct == sd[i][1]
             IN  IF pct \notin Keys(od)
                 THEN Outcome("KeyError", c, f, l \o <<<<"self", pct>>>>)
                 ELSE LET cl == Call(sd[i][2], Get(od, pct), DEFAULT_RTOL_INV)
                          l2 == l \o <<<<"self", pct>>, <<"other", pct>>>>
                      IN  Outcome(Bool(cl.ret), c \o <<cl>>, f, l2)

\* the loop over self.percentile_vs_values_dict, from its i-th item on
RECURSIVE PercentileLoop(_, _, _, _, _)
PercentileLoop(sd, od, i, c, l) ==
    LET f == <<<<"self", "percentile_vs_values_dict">>,
               <<"other", "percentile_vs_values_dict">>>>
    IN  IF i > Len(sd) THEN Outcome("True", c, f, l)
        ELSE LET pct == sd[i][1]
             IN  IF pct \notin Keys(od)
                 THEN Outcome("KeyError", c, f, l \o <<<<"self", pct>>>>)
                 ELSE LET cl == Call(sd[i][2], Get(od, pct), DEFAULT_RTOL_INV)
                          l2 == l \o <<<<"self", pct>>, <<"other", pct>>>>
                      IN  IF ~cl.ret
                          THEN Outcome("False", c \o <<cl>>, f, l2)
                          ELSE PercentileLoop(sd, od, i + 1, c \o <<cl>>, l2)

\* mutant: the key sets are not compared
Percentile__eq__NoKeyCheck(s, o, rtol) ==
    IF o.kind # "Percentile" THEN NotImplemented
    ELSE PercentileLoop(s.percentile_vs_values_dict,
                        o.percentile_vs_values_dict, 1, <<>>, <<>>)

\* mutant: only the numbers of keys are compared
Percentile__eq__LenCheck(s, o, rtol) ==
    IF o.kind # "Percentile" THEN NotImplemented
    ELSE LET sd == s.percentile_vs_values_dict
             od == o.percentile_vs_values_dict
         IN  IF Len(sd) # Len(od)
             THEN Outcome("False", <<>>,
                          <<<<"self", "percentile_vs_values_dict">>,
                            <<"other", "percentile_vs_values_dict">>>>, <<>>)
             ELSE PercentileLoop(sd, od, 1, <<>>, <<>>)

\* mutant: the keys of self only have to be among the keys of other
Percentile__eq__Subset(s, o, rtol) ==
    IF o.kind # "Percentile" THEN NotImplemented
    ELSE LET sd == s.percentile_vs_values_dict
             od == o.percentile_vs_values_dict
         IN  IF ~(Keys(sd) \subseteq Keys(od))
             THEN Outcome("False", <<>>,
                          <<<<"self", "percentile_vs_values_dict">>,
                            <<"other", "percentile_vs_values_dict">>>>, <<>>)
             ELSE PercentileLoop(sd, od, 1, <<>>, <<>>)

\* rtol is a parameter of the method that its body never uses
Percentile__eq__(s, o, rtol) ==
    IF o.kind # "Percentile" THEN NotImplemented
    ELSE LET sd == s.percentile_vs_values_dict
             od == o.percentile_vs_values_dict
         IN  IF Counter(sd) # Counter(od)
             THEN Outcome("False", <<>>,
                          <<<<"self", "percentile_vs_values_dict">>,
                            <<"other", "percentile_vs_values_dict">>>>, <<>>)
             ELSE PercentileLoop(sd, od, 1, <<>>, <<>>)

\* self == other, dispatched on the type of self
Eq(s, o) ==
    CASE s.kind = "MinMax" -> MinMax__eq__(s, o)
      [] s.kind = "Mean" -> Mean__eq__(s, o)
      [] s.kind = "MedianMAD" -> MedianMAD__eq__(s, o)
      [] s.kind = "Percentile" -> Percentile__eq__(s, o, PERCENTILE_RTOL_INV)
      [] s.kind = "Raw" -> Raw__eq__(s, o)

\* ------------------------------------------------------------ machine
Init ==
    /\ self \in Statistics
    /\ other \in Others(self)
    /\ result = "none"
    /\ calls = <<>>
    /\ reads = <<>>
    /\ lookups = <<>>

Record(out) ==
    /\ result' = out.ret
    /\ calls' = out.calls
    /\ reads' = out.reads
    /\ lookups' = out.lookups
    /\ UNCHANGED <<self, other>>

MinMaxEq ==
    /\ result = "none" /\ self.kind = "MinMax"
    /\ Record(MinMax__eq__(self, other))

MeanEq ==
    /\ result = "none" /\ self.kind = "Mean"
    /\ Record(Mean__eq__(self, other))

MedianMADEq ==
    /\ result = "none" /\ self.kind = "MedianMAD"
    /\ Record(MedianMAD__eq__(self, other))

PercentileEq ==
    /\ result = "none" /\ self.kind = "Percentile"
    /\ Record(Percentile__eq__(self, other, PERCENTILE_RTOL_INV))

RawEq ==
    /\ result = "none" /\ self.kind = "Raw"
    /\ Record(Raw__eq__(self, other))

Next == MinMaxEq \/ MeanEq \/ MedianMADEq \/ PercentileEq \/ RawEq

Spec == Init /\ [][Next]_vars

\* ------------------------------------------------------------ claims
Done == result # "none"
SameVariant == Done /\ other.kind = self.kind
BothPercentile == SameVariant /\ self.kind = "Percentile"
TwoField == {"MinMax", "Mean", "MedianMAD"}
Field1(k) ==
    CASE k = "MinMax" -> "min_values" [] k = "Mean" -> "mean_values"
      [] k = "MedianMAD" -> "median_values" [] k = "Raw" -> "values"
Field2(k) ==
    CASE k = "MinMax" -> "max_values" [] k = "Mean" -> "shape"
      [] k = "MedianMAD" -> "mad_values"
SelfDict == self.percentile_vs_values_dict
OtherDict == other.percentile_vs_values_dict
\* the orders in which the items of a dict can have been inserted
Orders(d) ==
    {[i \in DOMAIN d |-> d[p[i]]] :
        p \in {q \in [DOMAIN d -> DOMAIN d] : \A i, j \in DOMAIN d : q[i] = q[j] => i = j}}
Percentile(d) == [kind |-> "Percentile", percentile_vs_values_dict |-> d]
NaNFreeTensor(t) == \A i \in DOMAIN t : t[i] # NaN
NaNFree(s) ==
    CASE s.kind \in TwoField ->
            NaNFreeTensor(s[Field1(s.kind)]) /\ NaNFreeTensor(s[Field2(s.kind)])
      [] s.kind = "Raw" -> NaNFreeTensor(s.values)
      [] s.kind = "Percentile" ->
            \A i \in DOMAIN s.percentile_vs_values_dict :
                NaNFreeTensor(s.percentile_vs_values_dict[i][2])

\* C1: an operand of another variant, or one that is no statistic, gets
\* NotImplemented: never True, never a failure, no field of either operand
\* is read and tensor_eq is not invoked.
C1_OtherTypeNotImplemented ==
    (Done /\ other.kind # self.kind) =>
        /\ result = "NotImplemented"
        /\ calls = <<>> /\ reads = <<>> /\ lookups = <<>>

C1_Witness ==
    /\ self.kind = "MinMax" /\ other.kind = "Raw" /\ result = "NotImplemented"

\* C2: with identical key sets, every per-key comparison of two Percentile
\* instances invokes tensor_eq with rtol = 1e-9, so values that deviate by a
\* relative 1e-9 to 1e-6 at some key compare unequal.
C2_PercentileUsesTighterRtol ==
    (BothPercentile /\ Keys(SelfDict) = Keys(OtherDict)) =>
        /\ \A i \in DOMAIN calls : calls[i].rtol = PERCENTILE_RTOL_INV
        /\ (\E k \in Keys(SelfDict) :
                /\ tensor_eq(Get(SelfDict, k), Get(OtherDict, k), DEFAULT_RTOL_INV)
                /\ ~tensor_eq(Get(SelfDict, k), Get(OtherDict, k), PERCENTILE_RTOL_INV))
           => result = "False"

\* C3: two Percentile instances whose key sets differ compare False at once:
\* tensor_eq is not invoked and no value is looked up, also when the values
\* at every shared key match.
C3_KeySetsDifferFalseAtOnce ==
    (BothPercentile /\ Keys(SelfDict) # Keys(OtherDict)) =>
        /\ result = "False"
        /\ calls = <<>> /\ lookups = <<>>

C3_Witness ==
    /\ BothPercentile /\ result = "False"
    /\ Keys(SelfDict) = {5, 990} /\ Keys(OtherDict) = {5, 999}
    /\ Get(SelfDict, 5) = <<One>> /\ Get(OtherDict, 5) = <<One>>
    /\ Get(SelfDict, 990) = <<Nine>> /\ Get(OtherDict, 999) = <<Nine>>

\* C4: the result of Percentile equality is the same for every insertion
\* order of either mapping, and is True iff the key sets are equal and
\* tensor_eq holds for the two values at every key.
C4_PercentileOrderIndependent ==
    BothPercentile =>
        /\ \A sd \in Orders(SelfDict), od \in Orders(OtherDict) :
              Percentile__eq__(Percentile(sd), Percentile(od), PERCENTILE_RTOL_INV).ret
                  = result
        /\ (result = "True") <=>
              /\ Keys(SelfDict) = Keys(OtherDict)
              /\ \A k \in Keys(SelfDict) :
                    tensor_eq(Get(SelfDict, k), Get(OtherDict, k), DEFAULT_RTOL_INV)
        /\ result \in {"True", "False"}

C4_Witness ==
    /\ BothPercentile /\ result = "True"
    /\ SelfDict = <<<<5, <<One>>>>, <<990, <<Nine>>>>>>
    /\ OtherDict = <<<<990, <<Nine>>>>, <<5, <<One>>>>>>

\* C5: two instances of the same variant among MinMax, Mean, MedianMAD and
\* Raw compare True iff tensor_eq with the default rtol holds for every pair
\* of corresponding fields, and False otherwise.
C5_FieldwiseEquality ==
    (SameVariant /\ self.kind \in TwoField \cup {"Raw"}) =>
        /\ result \in {"True", "False"}
        /\ (result = "True") <=>
              /\ tensor_eq(self[Field1(self.kind)], other[Field1(self.kind)],
                           DEFAULT_RTOL_INV)
              /\ self.kind \in TwoField =>
                    tensor_eq(self[Field2(self.kind)], other[Field2(self.kind)],
                              DEFAULT_RTOL_INV)

C5_Witness ==
    /\ SameVariant /\ self.kind = "Mean" /\ result = "False"
    /\ tensor_eq(self.mean_values, other.mean_values, DEFAULT_RTOL_INV)
    /\ self.shape # other.shape

\* C6: within a variant equality is symmetric: x == y and y == x give the
\* same result.
C6_Symmetric ==
    SameVariant => Eq(other, self).ret = result

C6_Witness ==
    /\ BothPercentile /\ result = "False"
    /\ Keys(SelfDict) \subseteq Keys(OtherDict)
    /\ Keys(SelfDict) # Keys(OtherDict)
    /\ SelfDict # <<>>

\* C7: an instance whose tensors hold no NaN compares True with itself.
C7_ReflexiveWithoutNaN ==
    (Done /\ other = self /\ NaNFree(self)) => result = "True"

C7_Witness ==
    /\ Done /\ other = self /\ self.kind = "Mean" /\ NaNFree(self)
    /\ self.mean_values # self.shape
    /\ result = "True"

\* C8: corresponding tensors of different lengths make two instances of a
\* variant unequal, and no comparison ends in a failure.
LengthMismatch ==
    CASE self.kind \in TwoField ->
            \/ Len(self[Field1(self.kind)]) # Len(other[Field1(self.kind)])
            \/ Len(self[Field2(self.kind)]) # Len(other[Field2(self.kind)])
      [] self.kind = "Raw" -> Len(self.values) # Len(other.values)
      [] self.kind = "Percentile" ->
            \E k \in Keys(SelfDict) \cap Keys(OtherDict) :
                Len(Get(SelfDict, k)) # Len(Get(OtherDict, k))

C8_ShapeMismatchIsFalse ==
    /\ result \in {"none", "True", "False", "NotImplemented"}
    /\ (SameVariant /\ LengthMismatch) => result = "False"

C8_Witness ==
    /\ SameVariant /\ self.kind = "MinMax" /\ result = "False"
    /\ Len(self.min_values) = 2 /\ Len(other.min_values) = 3
    /\ self.max_values = other.max_values /\ NaNFreeTensor(self.max_values)

\* C9: with max_values equal, min_values = [1.0, 2.0] compares equal to
\* [1.0 + 5e-7, 2.0] and unequal to [1.0 + 1e-5, 2.0].
C9_ToleranceBoundary ==
    (/\ SameVariant /\ self.kind = "MinMax"
     /\ self.min_values = <<One, Two>>
     /\ tensor_eq(self.max_values, other.max_values, DEFAULT_RTOL_INV)) =>
        /\ other.min_values = <<OnePlus5em7, Two>> => result = "True"
        /\ other.min_values = <<OnePlus1em5, Two>> => result = "False"

C9_Witness ==
    /\ SameVariant /\ self.kind = "MinMax"
    /\ self.min_values = <<One, Two>> /\ other.min_values = <<OnePlus5em7, Two>>
    /\ self.max_values = other.max_values
    /\ result = "True"

\* C10: in Percentile equality every key looked up in the mapping of other
\* is present there, so no lookup fails; tensor_eq is invoked at most once
\* per key of self, and not again after the first key whose values differ.
C10_LookupsDefined ==
    BothPercentile =>
        /\ result # "KeyError"
        /\ \A i \in DOMAIN lookups :
              lookups[i][1] = "other" => lookups[i][2] \in Keys(OtherDict)
        /\ Len(calls) <= Len(SelfDict)
        /\ \A i \in DOMAIN calls :
              /\ calls[i].t1 = SelfDict[i][2]
              /\ calls[i].t2 = Get(OtherDict, SelfDict[i][1])
              /\ i < Len(calls) => calls[i].ret
        /\ (calls # <<>> /\ calls[Len(calls)].ret) => Len(calls) = Len(SelfDict)

C10_Witness ==
    /\ BothPercentile /\ result = "False"
    /\ Len(SelfDict) = 2 /\ Len(calls) = 1
    /\ SelfDict[1][1] # OtherDict[1][1]
====
